---------------------------- MODULE Spec2Model ----------------------------
(***************************************************************************)
(* A model of keccak.py (the Keccak-p permutation family, the sponge       *)
(* construction and SHAKE128) and of its caller shake128.py.               *)
(*                                                                         *)
(* Bits are the integers 0 and 1.  A numpy array is a TLA+ sequence, so    *)
(* Python's S[k] is S[k + 1] here.  The state array A[x, y, z] is the      *)
(* nested function A[x][y][z] with x, y in 0..4 and z in 0..w-1.           *)
(***************************************************************************)
EXTENDS Integers, Sequences, FiniteSets, TLC

BYTE_LENGTH == 8

PERMUTATION_WIDTHS == {25, 50, 100, 200, 400, 800, 1600}

-----------------------------------------------------------------------------
(* Helpers for numpy's elementwise operations.                             *)

\* a ^ b on bits
Xor(a, b) == (a + b) % 2

\* int(np.log2(w)) for w a power of two
RECURSIVE Log2(_)
Log2(w) == IF w <= 1 THEN 0 ELSE 1 + Log2(w \div 2)

RECURSIVE Pow2(_)
Pow2(j) == IF j = 0 THEN 1 ELSE 2 * Pow2(j - 1)

\* zeros(num)
zeros(num) == [k \in 1..num |-> 0]

\* S[lo:hi], Python slice on a sequence (0-based, hi exclusive, clipped)
Slice(S, lo, hi) ==
    LET h == IF hi < Len(S) THEN hi ELSE Len(S)
    IN  IF h <= lo THEN <<>> ELSE [k \in 1..(h - lo) |-> S[lo + k]]

-----------------------------------------------------------------------------
(* Bit buffer utilities.                                                   *)

\* np.unpackbits of one byte: most significant bit first
UnpackByte(v) == [k \in 1..BYTE_LENGTH |-> (v \div Pow2(BYTE_LENGTH - k)) % 2]

\* binary_array(byte_string)
binary_array(byte_string) ==
    [k \in 1..(BYTE_LENGTH * Len(byte_string)) |->
        UnpackByte(byte_string[((k - 1) \div BYTE_LENGTH) + 1])[((k - 1) % BYTE_LENGTH) + 1]]

\* np.flip
Flip(s) == [k \in 1..Len(s) |-> s[Len(s) + 1 - k]]

\* np.packbits of at most 8 bits: first bit is the most significant one,
\* missing bits are zero
RECURSIVE PackBits(_)
PackBits(s) ==
    IF Len(s) = 0 THEN 0
    ELSE s[1] * Pow2(BYTE_LENGTH - 1) + (PackBits(Tail(s)) \div 2)

HexDigits == <<"0", "1", "2", "3", "4", "5", "6", "7",
               "8", "9", "a", "b", "c", "d", "e", "f">>

\* bytes([v]).hex(): two lowercase hexadecimal digits
HexOfByte(v) == <<HexDigits[(v \div 16) + 1], HexDigits[(v % 16) + 1]>>

\* hex_digest(_binary_array); a hex string is a sequence of characters.
\* Chunk i is _binary_array[i:i + BYTE_LENGTH] for i in range(0, len, 8);
\* the last chunk may hold fewer than 8 bits.
hex_digest(_binary_array) ==
    LET nchunks == (Len(_binary_array) + BYTE_LENGTH - 1) \div BYTE_LENGTH
        chunk(i) == Slice(_binary_array, BYTE_LENGTH * i, BYTE_LENGTH * (i + 1))
    IN  [k \in 1..(2 * nchunks) |->
            HexOfByte(PackBits(Flip(chunk((k - 1) \div 2))))[((k - 1) % 2) + 1]]

-----------------------------------------------------------------------------
(* The state array and its step mappings.  Each mapping takes the lane     *)
(* size w (and l) it reads from PARAMETERS as an argument.                 *)

\* StateArray.__init__: A[x, y, z] = S[w * (5 * y + x) + z]
StateArray(S, w) ==
    [x \in 0..4 |-> [y \in 0..4 |-> [z \in 0..(w - 1) |->
        S[w * (5 * y + x) + z + 1]]]]

\* The lane size of an existing array (A.shape[2])
LaneSize(A) == Cardinality(DOMAIN A[0][0])

\* StateArray.S: the planes j = 0..4, each the lanes A[i, j] for i = 0..4
SerializeS(A) ==
    LET wa == LaneSize(A)
    IN  [k \in 1..(25 * wa) |->
            A[((k - 1) \div wa) % 5][(k - 1) \div (5 * wa)][(k - 1) % wa]]

\* StateArray.theta
theta(A, w) ==
    LET C == [x \in 0..4 |-> [z \in 0..(w - 1) |->
                (A[x][0][z] + A[x][1][z] + A[x][2][z] + A[x][3][z] + A[x][4][z]) % 2]]
        D == [x \in 0..4 |-> [z \in 0..(w - 1) |->
                Xor(C[(x - 1) % 5][z], C[(x + 1) % 5][(z - 1) % w])]]
    IN  [x \in 0..4 |-> [y \in 0..4 |-> [z \in DOMAIN A[x][y] |->
            IF z < w THEN Xor(A[x][y][z], D[x][z]) ELSE A[x][y][z]]]]

\* StateArray.rho: the loop over t, from (x, y) = (1, 0); B is the copy
\* being written, A is read
RECURSIVE RhoLoop(_, _, _, _, _, _)
RhoLoop(A, B, w, t, x, y) ==
    IF t = 24 THEN B
    ELSE RhoLoop(A,
                 [B EXCEPT ![x][y] = [z \in DOMAIN A[x][y] |->
                     IF z < w
                     THEN A[x][y][(z - ((t + 1) * (t + 2)) \div 2) % w]
                     ELSE B[x][y][z]]],
                 w, t + 1, y, (2 * x + 3 * y) % 5)

rho(A, w) == RhoLoop(A, A, w, 0, 1, 0)

\* StateArray.pi
pi(A, w) ==
    [x \in 0..4 |-> [y \in 0..4 |-> [z \in DOMAIN A[x][y] |->
        IF z < w THEN A[(x + 3 * y) % 5][x][z] ELSE A[x][y][z]]]]

\* StateArray.chi
chi(A, w) ==
    [x \in 0..4 |-> [y \in 0..4 |-> [z \in DOMAIN A[x][y] |->
        IF z < w
        THEN Xor(A[x][y][z], Xor(A[(x + 1) % 5][y][z], 1) * A[(x + 2) % 5][y][z])
        ELSE A[x][y][z]]]]

\* One step of the loop in rc: R = concat([0], R), the four feedback taps,
\* R = R[:8]
RcStep(R) ==
    LET R9 == <<0>> \o R
        R8 == R9[9]
    IN  <<Xor(R9[1], R8), R9[2], R9[3], R9[4],
          Xor(R9[5], R8), Xor(R9[6], R8), Xor(R9[7], R8), R9[8]>>

\* RcStep applied n times (the loop for _ in range(1, t % 255 + 1)), split
\* in halves; the guard H = H has the first half evaluated before the second
\* starts, as the loop does
RECURSIVE RcLoop(_, _)
RcLoop(R, n) ==
    IF n = 0 THEN R
    ELSE IF n = 1 THEN RcStep(R)
    ELSE LET H == RcLoop(R, n \div 2)
         IN  CASE H = H -> RcLoop(H, n - (n \div 2))

\* iota's rc(t)
rc(t) ==
    IF t % 255 = 0 THEN 1
    ELSE RcLoop(<<1, 0, 0, 0, 0, 0, 0, 0>>, t % 255)[1]

\* StateArray.iota
iota(A, ir, w, l) ==
    LET RC == [z \in 0..(w - 1) |->
                 IF \E j \in 0..l : z = Pow2(j) - 1
                 THEN rc((CHOOSE j \in 0..l : z = Pow2(j) - 1) + 7 * ir)
                 ELSE 0]
    IN  [A EXCEPT ![0][0] = [z \in DOMAIN A[0][0] |->
            IF z < w THEN Xor(A[0][0][z], RC[z]) ELSE A[0][0][z]]]

\* StateArray.Rnd
Rnd(A, ir, w, l) == iota(chi(pi(rho(theta(A, w), w), w), w), ir, w, l)

\* keccak_p._func as a function of its argument and of the parameters it
\* reads: the rounds ir = lo .. hi - 1 on A, each evaluated (the guard B = B)
\* before the next one starts
RECURSIVE RoundLoop(_, _, _, _, _)
RoundLoop(A, ir, hi, w, l) ==
    IF ir >= hi THEN A
    ELSE LET B == Rnd(A, ir, w, l)
         IN  CASE B = B -> RoundLoop(B, ir + 1, hi, w, l)

keccak_p_func(S, nr, w, l) ==
    SerializeS(RoundLoop(StateArray(S, w), 12 + 2 * l - nr, 12 + 2 * l, w, l))

\* pad10s1 with the padding one bit short: j = (-m - 1) % x
pad10s1_short(x, m) ==
    LET j == (-m - 1) % x
    IN  <<1>> \o zeros(j) \o <<1>>

\* pad10s1(x, m)
pad10s1(x, m) ==
    LET j == (-m - 2) % x
    IN  <<1>> \o zeros(j) \o <<1>>

\* np.logical_xor of two arrays of the same length
logical_xor(S, T) == [k \in 1..Len(S) |-> Xor(S[k], T[k])]

-----------------------------------------------------------------------------
(* Module state and call frames.                                           *)

VARIABLES
    PARAMETERS,   \* the module-level dict: empty, or keys b, w, l
    exited,       \* sys.exit() has been called
    perm,         \* the closure keccak_p returned, if any: <<[b, nr]>>
    spg,          \* the closure sponge returned, if any: <<[f, r, b]>>
    kp,           \* the frame of the running keccak_p._func call
    sp,           \* the frame of the running sponge._func call
    sh,           \* shake128.py: MSG, and the shake128_hex calls made
    ut,           \* a caller of binary_array and hex_digest
    last          \* the last call a client made: [op, b]

vars == <<PARAMETERS, exited, perm, spg, kp, sp, sh, ut, last>>

\* init accepting every width in the range of the legal ones
init_ok_range(_b) == _b >= 25 /\ _b <= 1600

\* init: the check of _b
init_ok(_b) == _b \in PERMUTATION_WIDTHS

\* init: the three assignments to PARAMETERS
init_params(_b) ==
    [b |-> _b, w |-> _b \div 25, l |-> Log2(_b \div 25)]

EmptyParameters == [k \in {} |-> 0]

IdleKp ==
    [pc |-> "idle", b |-> 0, nr |-> 0, l |-> 0, w |-> 0, A |-> <<>>,
     ir |-> 0, hi |-> 0, trace |-> <<>>, ret |-> <<>>, caller |-> "none"]

IdleSp ==
    [pc |-> "idle", f |-> [b |-> 0, nr |-> 0], r |-> 0, b |-> 0,
     N |-> <<>>, d |-> 0, P |-> <<>>, n |-> 0, i |-> 0, S |-> <<>>,
     Z |-> <<>>, appends |-> 0, ret |-> <<>>]

IdleSh == [pc |-> "idle", MSG |-> <<>>, n |-> 0, b0 |-> 0, results |-> <<>>]

IdleUt == [pc |-> "idle", bs |-> <<>>, bits |-> <<>>, hex |-> <<>>]

\* keccak_p._func up to its first round: l = PARAMETERS['l'], A = StateArray(S)
\* (IndexError when S is shorter than 25 * w), the bounds of the range
PermEnter(f, S, caller, P) ==
    LET l  == P.l
        w  == P.w
        lo == 12 + 2 * l - f.nr
        hi == 12 + 2 * l
    IN  IF Len(S) < 25 * w
        THEN [IdleKp EXCEPT !.pc = "err", !.b = f.b, !.nr = f.nr, !.l = l,
                            !.w = w, !.caller = caller]
        ELSE LET A == StateArray(S, w)
             IN  [pc |-> IF lo < hi THEN "theta" ELSE "ret",
                  b |-> f.b, nr |-> f.nr, l |-> l, w |-> w, A |-> A,
                  ir |-> lo, hi |-> hi, trace |-> <<>>,
                  ret |-> IF lo < hi THEN <<>> ELSE SerializeS(A),
                  caller |-> caller]

\* One step mapping of the running round: it reads w (iota: w and l) from
\* PARAMETERS; an index past the array's lane raises IndexError
StepFrame(f, step, next, B, P) ==
    IF P.w > LaneSize(f.A)
    THEN [f EXCEPT !.pc = "err"]
    ELSE [f EXCEPT !.pc = next, !.A = B,
                   !.trace = Append(@, [step |-> step, ir |-> f.ir,
                                        w |-> P.w, l |-> P.l])]

\* The end of one round: the next ir of the range, or return A.S()
RoundEnd(f) ==
    IF f.pc # "next" THEN f
    ELSE IF f.ir + 1 < f.hi
         THEN [f EXCEPT !.pc = "theta", !.ir = f.ir + 1]
         ELSE [f EXCEPT !.pc = "ret", !.ret = SerializeS(f.A)]

Theta ==
    /\ ~exited /\ kp.pc = "theta"
    /\ kp' = StepFrame(kp, "theta", "rho", theta(kp.A, PARAMETERS.w), PARAMETERS)
    /\ UNCHANGED <<PARAMETERS, exited, perm, spg, sp, sh, ut, last>>

Rho ==
    /\ ~exited /\ kp.pc = "rho"
    /\ kp' = StepFrame(kp, "rho", "pi", rho(kp.A, PARAMETERS.w), PARAMETERS)
    /\ UNCHANGED <<PARAMETERS, exited, perm, spg, sp, sh, ut, last>>

Pi ==
    /\ ~exited /\ kp.pc = "pi"
    /\ kp' = StepFrame(kp, "pi", "chi", pi(kp.A, PARAMETERS.w), PARAMETERS)
    /\ UNCHANGED <<PARAMETERS, exited, perm, spg, sp, sh, ut, last>>

Chi ==
    /\ ~exited /\ kp.pc = "chi"
    /\ kp' = StepFrame(kp, "chi", "iota", chi(kp.A, PARAMETERS.w), PARAMETERS)
    /\ UNCHANGED <<PARAMETERS, exited, perm, spg, sp, sh, ut, last>>

Iota ==
    /\ ~exited /\ kp.pc = "iota"
    /\ kp' = RoundEnd(StepFrame(kp, "iota", "next",
                                iota(kp.A, kp.ir, PARAMETERS.w, PARAMETERS.l),
                                PARAMETERS))
    /\ UNCHANGED <<PARAMETERS, exited, perm, spg, sp, sh, ut, last>>

-----------------------------------------------------------------------------
(* The sponge.                                                             *)

\* sponge(f, pad, r): b = PARAMETERS['b'] is read when the closure is made
sponge(f, r, P) == [f |-> f, r |-> r, b |-> P.b]

\* sponge._func(N, d) up to the absorb loop (pad is pad10s1)
SpongeEnter(g, N, d) ==
    LET P == N \o pad10s1(g.r, Len(N))
        n == Len(P) \div g.r
    IN  [pc |-> IF n > 0 THEN "absorb" ELSE "squeeze",
         f |-> g.f, r |-> g.r, b |-> g.b, N |-> N, d |-> d, P |-> P,
         n |-> n, i |-> 0, S |-> zeros(g.b), Z |-> zeros(0),
         appends |-> 0, ret |-> <<>>]

\* The argument of f in the absorb loop:
\* np.logical_xor(S, concat(P[i * r:(i + 1) * r], zeros(c)))
AbsorbArg(f) ==
    logical_xor(f.S, Slice(f.P, f.i * f.r, (f.i + 1) * f.r) \o zeros(f.b - f.r))

\* One iteration of the absorb loop calls f
AbsorbCall ==
    /\ ~exited /\ sp.pc = "absorb" /\ kp.pc = "idle"
    /\ kp' = PermEnter(sp.f, AbsorbArg(sp), "sponge", PARAMETERS)
    /\ UNCHANGED <<PARAMETERS, exited, perm, spg, sp, sh, ut, last>>

\* f returns: S = f(...), and the loop goes on or ends (Z = zeros(0))
AbsorbReturn ==
    /\ ~exited /\ sp.pc = "absorb" /\ kp.pc = "ret" /\ kp.caller = "sponge"
    /\ sp' = [sp EXCEPT !.S = kp.ret, !.i = @ + 1,
                        !.pc = IF sp.i + 1 < sp.n THEN "absorb" ELSE "squeeze"]
    /\ kp' = IdleKp
    /\ UNCHANGED <<PARAMETERS, exited, perm, spg, sh, ut, last>>

\* The last d bits in place of the first d: Z[-d:]
Truncate_tail(Z, d) == Slice(Z, Len(Z) - d, Len(Z))

\* No truncation: Z returned whole
Truncate_none(Z, d) == Z

\* Z[:d]
Truncate(Z, d) == Slice(Z, 0, d)

\* One iteration of the squeeze loop: Z = concat(Z, S[:r]), and the return
\* of Z[:d] once d <= len(Z)
SqueezeFrame(f) ==
    LET Z1 == f.Z \o Slice(f.S, 0, f.r)
    IN  IF f.d <= Len(Z1)
        THEN [f EXCEPT !.Z = Z1, !.appends = @ + 1, !.pc = "done",
                       !.ret = Truncate(Z1, f.d)]
        ELSE [f EXCEPT !.Z = Z1, !.appends = @ + 1]

Squeeze ==
    /\ ~exited /\ sp.pc = "squeeze"
    /\ sp' = SqueezeFrame(sp)
    /\ UNCHANGED <<PARAMETERS, exited, perm, spg, kp, sh, ut, last>>

-----------------------------------------------------------------------------
(* Clients of init and keccak_p: calls made one after the other.           *)

MaxNr == 2
MaxSeedBit == 1

\* Widths a client passes to keccak_p: legal ones and an illegal one
ClientWidths == {25, 50, 30}

\* Widths a client passes to init: the legal ones and illegal ones
InitWidths == PERMUTATION_WIDTHS \cup {0, 30}

\* Round counts a client passes: reduced ones, and the full 12 + 2l
ClientRounds(b) == (0..MaxNr) \cup {12 + 2 * Log2(b \div 25)}

\* Input strings of b bits: all zero, or a single one
PermInputs(b) ==
    {[k \in 1..b |-> IF k = p THEN 1 ELSE 0] : p \in 0..MaxSeedBit}

\* No call is running
Quiet == kp.pc \in {"idle", "ret", "err"} /\ sp.pc \in {"idle", "done"}
         /\ sh.pc = "idle"

\* init(_b)
ClientInit(_b) ==
    /\ ~exited /\ Quiet
    /\ last' = [op |-> "init", b |-> _b]
    /\ IF init_ok(_b)
       THEN /\ PARAMETERS' = init_params(_b)
            /\ UNCHANGED exited
       ELSE /\ exited' = TRUE
            /\ UNCHANGED PARAMETERS
    /\ UNCHANGED <<perm, spg, kp, sp, sh, ut>>

\* keccak_p(b, nr): init(b), then the closure is returned
ClientKeccakP(b, nr) ==
    /\ ~exited /\ Quiet
    /\ perm = <<>>
    /\ last' = [op |-> "keccak_p", b |-> b]
    /\ IF init_ok(b)
       THEN /\ PARAMETERS' = init_params(b)
            /\ perm' = <<[b |-> b, nr |-> nr]>>
            /\ UNCHANGED exited
       ELSE /\ exited' = TRUE
            /\ UNCHANGED <<PARAMETERS, perm>>
    /\ UNCHANGED <<spg, kp, sp, sh, ut>>

\* A client calls the closure keccak_p returned, on a string of its b bits
ClientCallPerm(S) ==
    /\ ~exited
    /\ kp.pc = "idle"
    /\ perm # <<>>
    /\ kp' = PermEnter(perm[1], S, "client", PARAMETERS)
    /\ last' = [op |-> "call", b |-> perm[1].b]
    /\ UNCHANGED <<PARAMETERS, exited, perm, spg, sp, sh, ut>>

Init ==
    /\ PARAMETERS = EmptyParameters
    /\ exited = FALSE
    /\ perm = <<>>
    /\ spg = <<>>
    /\ kp = IdleKp
    /\ sp = IdleSp
    /\ sh = IdleSh
    /\ ut = IdleUt
    /\ last = [op |-> "none", b |-> 0]

Next ==
    \/ \E b \in InitWidths : ClientInit(b)
    \/ \E b \in ClientWidths : \E nr \in ClientRounds(b) : ClientKeccakP(b, nr)
    \/ \E S \in PermInputs(IF perm = <<>> THEN 0 ELSE perm[1].b) : ClientCallPerm(S)
    \/ Theta
    \/ Rho
    \/ Pi
    \/ Chi
    \/ Iota

Spec == Init /\ [][Next]_vars

-----------------------------------------------------------------------------
(* A client of sponge over a small permutation.                            *)

MaxRate == 3
MaxMsgBits == 2
MaxD == 4

SpongeWidths == {25, 50}

\* All bit strings of at most n bits
BitStrings(n) == UNION {[1..k -> {0, 1}] : k \in 0..n}

\* sponge(keccak_p(b, nr), pad10s1, r): the arguments first, so init(b) runs
\* before sponge reads PARAMETERS['b']
ClientSponge(b, nr, r) ==
    /\ ~exited /\ Quiet
    /\ spg = <<>>
    /\ PARAMETERS' = init_params(b)
    /\ spg' = <<sponge([b |-> b, nr |-> nr], r, PARAMETERS')>>
    /\ last' = [op |-> "sponge", b |-> b]
    /\ UNCHANGED <<exited, perm, kp, sp, sh, ut>>

\* A client calls the closure sponge returned
ClientCallSponge(N, d) ==
    /\ ~exited
    /\ sp.pc = "idle" /\ kp.pc = "idle"
    /\ spg # <<>>
    /\ sp' = SpongeEnter(spg[1], N, d)
    /\ last' = [op |-> "call_sponge", b |-> spg[1].b]
    /\ UNCHANGED <<PARAMETERS, exited, perm, spg, kp, sh, ut>>

NextSponge ==
    \/ \E b \in SpongeWidths : \E nr \in ClientRounds(b) : \E r \in 1..MaxRate :
          ClientSponge(b, nr, r)
    \/ \E N \in BitStrings(MaxMsgBits) : \E d \in 0..MaxD : ClientCallSponge(N, d)
    \/ AbsorbCall
    \/ Theta
    \/ Rho
    \/ Pi
    \/ Chi
    \/ Iota
    \/ AbsorbReturn
    \/ Squeeze

SpecSponge == Init /\ [][NextSponge]_vars

-----------------------------------------------------------------------------
(* shake128.py: MSG is read once, shake128_hex(MSG, n) is called.          *)

\* keccak reading l before its init(): the round count follows the width
\* PARAMETERS was left at
keccak_stale(c, P) ==
    LET P1 == init_params(1600)
        b  == P1.b
        l  == IF DOMAIN P = {} THEN P1.l ELSE P.l
        P2 == init_params(b)
    IN  [f |-> [b |-> b, nr |-> 12 + 2 * l], r |-> b - c, b |-> P2.b]

\* keccak(c): init(), b and l read, sponge(keccak_p(b, 12 + 2 * l), pad10s1,
\* b - c); P is PARAMETERS as the call finds it
keccak(c, P) ==
    LET P1 == init_params(1600)
        b  == P1.b
        l  == P1.l
        P2 == init_params(b)
    IN  sponge([b |-> b, nr |-> 12 + 2 * l], b - c, P2)

\* shake_128 (M, d): the sponge and the string it is called on
shake_128_N(M) == M \o <<1, 1, 1, 1>>

Messages == {<<>>, <<97, 98, 99>>}
ByteNums == {0, 32, 170}
ShakeEnvWidths == {25}

\* The calls of shake128_hex one session makes, one after the other: the
\* properties of shake128_hex relate pairs of calls.
MaxCalls == 2

\* shake128_hex(byte_string, byte_num) up to the absorb loop of the sponge
ShakeCall(n) ==
    /\ ~exited
    /\ sh.pc = "idle" /\ sp.pc = "idle" /\ kp.pc = "idle"
    /\ Len(sh.results) < MaxCalls
    /\ sh' = [sh EXCEPT !.pc = "running", !.n = n,
                        !.b0 = IF DOMAIN PARAMETERS = {} THEN 0 ELSE PARAMETERS.b]
    /\ sp' = SpongeEnter(keccak(256, PARAMETERS),
                         shake_128_N(binary_array(sh.MSG)), n * BYTE_LENGTH)
    /\ PARAMETERS' = init_params(1600)
    /\ last' = [op |-> "shake128_hex", b |-> 1600]
    /\ UNCHANGED <<exited, perm, spg, kp, ut>>

\* The sponge returns res; res_hex = hex_digest(res) is returned
ShakeReturn ==
    /\ ~exited
    /\ sh.pc = "running" /\ sp.pc = "done"
    /\ sh' = [sh EXCEPT !.pc = "idle",
                        !.results = Append(@, [n |-> sh.n, b0 |-> sh.b0,
                                               res |-> sp.ret,
                                               hex |-> hex_digest(sp.ret)])]
    /\ sp' = IdleSp
    /\ UNCHANGED <<PARAMETERS, exited, perm, spg, kp, ut, last>>

InitShake ==
    /\ PARAMETERS = EmptyParameters
    /\ exited = FALSE
    /\ perm = <<>>
    /\ spg = <<>>
    /\ kp = IdleKp
    /\ sp = IdleSp
    /\ sh \in {[IdleSh EXCEPT !.MSG = m] : m \in Messages}
    /\ ut = IdleUt
    /\ last = [op |-> "none", b |-> 0]

NextShake ==
    \/ \E b \in ShakeEnvWidths : ClientInit(b)
    \/ \E n \in ByteNums : ShakeCall(n)
    \/ AbsorbCall
    \/ Theta
    \/ Rho
    \/ Pi
    \/ Chi
    \/ Iota
    \/ AbsorbReturn
    \/ Squeeze
    \/ ShakeReturn

SpecShake == InitShake /\ [][NextShake]_vars
-----------------------------------------------------------------------------
(* A caller of the bit buffer utilities.                                   *)

MaxBytes == 2

\* All byte strings of at most n bytes
ByteStrings(n) == UNION {[1..k -> 0..255] : k \in 0..n}

\* bits = binary_array(bs)
UtilUnpack ==
    /\ ut.pc = "input"
    /\ ut' = [ut EXCEPT !.pc = "bits", !.bits = binary_array(ut.bs)]
    /\ UNCHANGED <<PARAMETERS, exited, perm, spg, kp, sp, sh, last>>

\* hex = hex_digest(bits)
UtilHex ==
    /\ ut.pc = "bits"
    /\ ut' = [ut EXCEPT !.pc = "hex", !.hex = hex_digest(ut.bits)]
    /\ UNCHANGED <<PARAMETERS, exited, perm, spg, kp, sp, sh, last>>

InitUtil ==
    /\ PARAMETERS = EmptyParameters
    /\ exited = FALSE
    /\ perm = <<>>
    /\ spg = <<>>
    /\ kp = IdleKp
    /\ sp = IdleSp
    /\ sh = IdleSh
    /\ ut \in {[IdleUt EXCEPT !.pc = "input", !.bs = bs] : bs \in ByteStrings(MaxBytes)}
    /\ last = [op |-> "none", b |-> 0]

NextUtil ==
    \/ UtilUnpack
    \/ UtilHex

SpecUtil == InitUtil /\ [][NextUtil]_vars

-----------------------------------------------------------------------------
(* Properties.                                                             *)

\* The first 170 bytes of the FIPS 202 SHAKE128 output for the empty message
SHAKE128_Empty ==
    <<
      127, 156, 43, 164, 232, 143, 130, 125, 97, 96, 69, 80, 118, 5, 133,
      62, 215, 59, 128, 147, 246, 239, 188, 136, 235, 26, 110, 172, 250,
      102, 239, 38, 60, 177, 238, 169, 136, 0, 75, 147, 16, 60, 251, 10,
      238, 253, 42, 104, 110, 1, 250, 74, 88, 232, 163, 99, 156, 168, 161,
      227, 249, 174, 87, 226, 53, 184, 204, 135, 60, 35, 220, 98, 184, 210,
      96, 22, 154, 250, 47, 117, 171, 145, 106, 88, 217, 116, 145, 136, 53,
      210, 94, 106, 67, 80, 133, 178, 186, 223, 214, 223, 170, 195, 89, 165,
      239, 187, 123, 204, 75, 89, 213, 56, 223, 154, 4, 48, 46, 16, 200,
      188, 28, 191, 26, 11, 58, 81, 32, 234, 23, 205, 167, 207, 173, 118,
      95, 86, 35, 71, 77, 54, 140, 204, 168, 175, 0, 7, 205, 159, 94, 76,
      132, 159, 22, 122, 88, 11, 20, 170, 189, 239, 174, 231, 238, 244, 124,
      176, 252, 169, 118, 123
    >>

\* The first 170 bytes of the FIPS 202 SHAKE128 output for the message "abc"
SHAKE128_abc ==
    <<
      88, 129, 9, 45, 216, 24, 191, 92, 248, 163, 221, 183, 147, 251, 203,
      167, 64, 151, 213, 197, 38, 166, 211, 95, 151, 184, 51, 81, 148, 15,
      44, 200, 68, 197, 10, 243, 42, 205, 63, 44, 221, 6, 101, 104, 112,
      111, 80, 155, 193, 189, 222, 88, 41, 93, 174, 63, 137, 26, 154, 15,
      202, 87, 131, 120, 154, 65, 248, 97, 18, 20, 206, 97, 35, 148, 223,
      40, 106, 98, 209, 162, 37, 42, 169, 77, 185, 197, 56, 149, 108, 113,
      125, 194, 190, 212, 242, 50, 160, 41, 76, 133, 124, 115, 10, 161, 96,
      103, 172, 16, 98, 241, 32, 31, 176, 211, 119, 207, 185, 205, 228, 198,
      53, 153, 178, 127, 52, 98, 187, 164, 160, 237, 41, 108, 128, 31, 159,
      247, 245, 115, 2, 187, 48, 118, 238, 20, 95, 151, 163, 42, 230, 142,
      118, 171, 102, 196, 141, 81, 103, 91, 212, 154, 204, 41, 8, 47, 86,
      71, 88, 78, 106, 160
    >>

\* The published digest of n bytes, as lowercase hexadecimal text
KnownAnswerHex(msg, n) ==
    LET out == IF msg = <<>> THEN SHAKE128_Empty ELSE SHAKE128_abc
    IN  [k \in 1..(2 * n) |->
            IF k % 2 = 1
            THEN HexDigits[(out[(k + 1) \div 2] \div 16) + 1]
            ELSE HexDigits[(out[k \div 2] % 16) + 1]]

\* C1: every shake128_hex(message, n) a session has returned is the published
\* FIPS 202 SHAKE128 digest of that message, of n bytes.
C1_KnownAnswer ==
    \A i \in DOMAIN sh.results :
        sh.results[i].hex = KnownAnswerHex(sh.MSG, sh.results[i].n)

\* C2: for two calls on the same message with lengths d1 < d2, the first d1
\* bits of the d2-bit output are the d1-bit output.
C2_Prefix ==
    \A i, j \in DOMAIN sh.results :
        sh.results[i].n < sh.results[j].n
        => Slice(sh.results[j].res, 0, BYTE_LENGTH * sh.results[i].n)
             = sh.results[i].res

\* C2 witness: a session that asked for 32 bytes (d1 = 256 <= r = 1344) and
\* for 170 bytes (d2 = 1360 > r), so the two lengths end in different blocks.
C2_Witness ==
    /\ \E i \in DOMAIN sh.results : sh.results[i].n = 32
    /\ \E j \in DOMAIN sh.results :
          sh.results[j].n = 170 /\ BYTE_LENGTH * 170 > 1600 - 256

\* C3: the sponge returns exactly d bits, and shake128_hex returns exactly
\* 2 * n lowercase hexadecimal characters.
C3_Length ==
    /\ sp.pc = "done" => Len(sp.ret) = sp.d
    /\ \A i \in DOMAIN sh.results :
          /\ Len(sh.results[i].res) = BYTE_LENGTH * sh.results[i].n
          /\ Len(sh.results[i].hex) = 2 * sh.results[i].n
          /\ \A k \in DOMAIN sh.results[i].hex :
                sh.results[i].hex[k] \in
                    {"0", "1", "2", "3", "4", "5", "6", "7", "8", "9",
                     "a", "b", "c", "d", "e", "f"}

\* C3 witness: a session that asked for 0 bytes and for 170 bytes (d > r).
C3_Witness ==
    /\ \E i \in DOMAIN sh.results : sh.results[i].n = 0
    /\ \E j \in DOMAIN sh.results :
          sh.results[j].n = 170 /\ Len(sh.results[j].hex) = 340

\* C4: two calls with the same message and the same length return the same
\* output, whatever PARAMETERS held when each was made.
C4_Deterministic ==
    \A i, j \in DOMAIN sh.results :
        sh.results[i].n = sh.results[j].n
        => /\ sh.results[i].res = sh.results[j].res
           /\ sh.results[i].hex = sh.results[j].hex

\* C4 witness: two calls of the same non-zero length, the first made with
\* PARAMETERS empty and the second with PARAMETERS left at width 25.
C4_Witness ==
    /\ Len(sh.results) = 2
    /\ sh.results[1].n = sh.results[2].n /\ sh.results[1].n > 0
    /\ sh.results[1].b0 = 0 /\ sh.results[2].b0 = 25

\* The lowercase hexadecimal text of a byte string
HexString(bs) ==
    [k \in 1..(2 * Len(bs)) |->
        IF k % 2 = 1
        THEN HexDigits[(bs[(k + 1) \div 2] \div 16) + 1]
        ELSE HexDigits[(bs[k \div 2] % 16) + 1]]

\* C5: hex_digest(binary_array(bs)) is the hexadecimal text of bs.
C5_RoundTrip ==
    ut.pc = "hex" => ut.hex = HexString(ut.bs)

\* C6: the padding is 1, j zeros, 1 with j = (-m - 2) mod r and 0 <= j < r,
\* the padded length is a multiple of r, and the padded message the absorb
\* loop gets is n >= 1 blocks of r bits.
C6_Padding ==
    sp.pc # "idle" =>
        LET m   == Len(sp.N)
            pad == Slice(sp.P, m, Len(sp.P))
            j   == Len(pad) - 2
        IN  /\ Slice(sp.P, 0, m) = sp.N
            /\ 0 <= j /\ j < sp.r
            /\ (m + 2 + j) % sp.r = 0
            /\ pad[1] = 1 /\ pad[j + 2] = 1
            /\ \A k \in 2..(j + 1) : pad[k] = 0
            /\ (m + Len(pad)) % sp.r = 0
            /\ sp.n >= 1 /\ sp.n * sp.r = Len(sp.P)

\* C6 witness: a sponge call whose padding holds zeros (j > 0) and whose
\* padded message is more than one block.
C6_Witness ==
    /\ sp.pc = "absorb" /\ sp.i >= 1
    /\ Len(sp.P) - Len(sp.N) > 2
    /\ sp.n >= 2

\* C7: a call of init or keccak_p with an illegal width stops the program
\* at once, with PARAMETERS as it was, no closure returned and no output;
\* with a legal width the call does not stop it.  Nothing runs once the
\* program has stopped.
C7_InvalidWidth ==
    [][/\ ~exited
       /\ (last' # last /\ last'.op \in {"init", "keccak_p"}) =>
            IF last'.b \in {25, 50, 100, 200, 400, 800, 1600}
            THEN /\ ~exited'
                 /\ PARAMETERS'.b = last'.b
                 /\ 25 * PARAMETERS'.w = last'.b
                 /\ Pow2(PARAMETERS'.l) = PARAMETERS'.w
                 /\ last'.op = "keccak_p" => (perm' # <<>> /\ perm'[1].b = last'.b)
            ELSE /\ exited'
                 /\ PARAMETERS' = PARAMETERS
                 /\ perm' = perm
                 /\ kp' = kp]_vars

\* C7 witness: keccak_p was called with the illegal width 30 after a legal
\* init, and the program has stopped with PARAMETERS still set.
C7_Witness ==
    /\ exited
    /\ last.op = "keccak_p" /\ last.b = 30
    /\ DOMAIN PARAMETERS # {}
    /\ perm = <<>>

\* f applied k times to S, f the permutation of closure c with the
\* parameters of its own width
RECURSIVE PermPow(_, _, _)
PermPow(S, k, c) ==
    IF k = 0 THEN S
    ELSE LET T == PermPow(S, k - 1, c)
         IN  CASE T = T ->
                keccak_p_func(T, c.nr, c.b \div 25, Log2(c.b \div 25))

\* C8: the k-th block of r output bits is the first r bits of f applied k
\* times to the state the absorb phase left, the output is the accumulator
\* cut to d bits, and the loop ends after ceil(d / r) appends.
C8_Squeeze ==
    sp.pc = "done" =>
        /\ \A k \in 0..(sp.appends - 1) :
              Slice(sp.Z, k * sp.r, (k + 1) * sp.r)
                = Slice(PermPow(sp.S, k, sp.f), 0, sp.r)
        /\ sp.ret = Slice(sp.Z, 0, sp.d)
        /\ sp.d >= 1 => sp.appends = (sp.d + sp.r - 1) \div sp.r

\* C9: a running permutation uses w and l of the width its closure was
\* made with, in StateArray and in every step mapping.
C9_OwnParameters ==
    kp.pc # "idle" =>
        /\ 25 * kp.w = kp.b /\ Pow2(kp.l) = kp.w
        /\ \A k \in DOMAIN kp.trace :
              25 * kp.trace[k].w = kp.b /\ Pow2(kp.trace[k].l) = kp.trace[k].w

\* The round schedule of keccak_p(b, nr): step k of the nr * 5 steps
Schedule(b, nr) ==
    LET l == Log2(b \div 25)
        steps == <<"theta", "rho", "pi", "chi", "iota">>
    IN  [k \in 1..(5 * nr) |->
            [step |-> steps[((k - 1) % 5) + 1],
             ir   |-> 12 + 2 * l - nr + ((k - 1) \div 5)]]

\* C10: a call of the permutation keccak_p(b, nr) returned has run nr
\* rounds, ir = 12 + 2l - nr, ..., 12 + 2l - 1 with l = log2(b / 25), each
\* one theta, rho, pi, chi, iota(ir) in that order.
C10_Schedule ==
    kp.pc = "ret" =>
        [k \in DOMAIN kp.trace |->
            [step |-> kp.trace[k].step, ir |-> kp.trace[k].ir]]
          = Schedule(kp.b, kp.nr)

=============================================================================
